---- MODULE Spec2Model ----
(***************************************************************************)
(* sockem: socket-level network emulation (src/sockem.c).                  *)
(*                                                                         *)
(* A model of the relay session (sockem_t), its forwarder thread           *)
(* (sockem_run), the config setter (sockem_set0 / sockem_vset), the        *)
(* teardown (sockem_close, sockem_close_all), the session list (sockems,   *)
(* sockem_find) and the connect/close preload adapter.                     *)
(***************************************************************************)
EXTENDS Integers, Sequences, FiniteSets, TLC

(***************************************************************************)
(* Bounds of the model.                                                    *)
(***************************************************************************)
\* sessions alive side by side in the specification of the session list
RegSessions == 2
\* bytes offered by each end of a connection
MaxData == 2
\* sockem_set calls per session
MaxSets == 1

(***************************************************************************)
(* C strings: a sequence of characters; NUL terminates a string inside a   *)
(* buffer (strdupa'd copy that sockem_set0 cuts into tokens).              *)
(***************************************************************************)
NUL == "NUL"

\* the C string starting at index i of buffer b (up to the first NUL)
RECURSIVE CStr(_, _)
CStr(b, i) ==
    IF i > Len(b) \/ b[i] = NUL THEN <<>>
    ELSE <<b[i]>> \o CStr(b, i + 1)

\* strchr(): index of the first c in the C string at b[i..], 0 for NULL
RECURSIVE StrChr(_, _, _)
StrChr(b, i, c) ==
    IF i > Len(b) \/ b[i] = NUL THEN 0
    ELSE IF b[i] = c THEN i
    ELSE StrChr(b, i + 1, c)

DigitVal(c) ==
    CASE c = "0" -> 0 [] c = "1" -> 1 [] c = "2" -> 2 [] c = "3" -> 3
      [] c = "4" -> 4 [] c = "5" -> 5 [] c = "6" -> 6 [] c = "7" -> 7
      [] c = "8" -> 8 [] c = "9" -> 9 [] OTHER -> -1

\* the digits of atoi(): accumulates the leading run of digits
RECURSIVE AtoiDigits(_, _, _)
AtoiDigits(str, i, acc) ==
    IF i > Len(str) \/ DigitVal(str[i]) = -1 THEN acc
    ELSE AtoiDigits(str, i + 1, acc * 10 + DigitVal(str[i]))

\* leading blanks skipped by atoi()
RECURSIVE SkipBlanks(_, _)
SkipBlanks(str, i) ==
    IF i <= Len(str) /\ str[i] = " " THEN SkipBlanks(str, i + 1) ELSE i

\* atoi(): blanks, an optional sign, then digits; 0 when there is no digit
atoi(str) ==
    LET i == SkipBlanks(str, 1)
    IN IF i <= Len(str) /\ str[i] = "-" THEN 0 - AtoiDigits(str, i + 1, 0)
       ELSE IF i <= Len(str) /\ str[i] = "+" THEN AtoiDigits(str, i + 1, 0)
       ELSE AtoiDigits(str, i, 0)

(***************************************************************************)
(* Config keys, spelled out as C strings.                                  *)
(***************************************************************************)
K_rx_thruput == <<"r","x",".","t","h","r","u","p","u","t">>
K_rx_throughput == <<"r","x",".","t","h","r","o","u","g","h","p","u","t">>
K_tx_thruput == <<"t","x",".","t","h","r","u","p","u","t">>
K_tx_throughput == <<"t","x",".","t","h","r","o","u","g","h","p","u","t">>
K_delay == <<"d","e","l","a","y">>
K_jitter == <<"j","i","t","t","e","r">>
K_rx_bufsz == <<"r","x",".","b","u","f","s","z">>
K_debug == <<"d","e","b","u","g">>
K_true == <<"t","r","u","e">>

(***************************************************************************)
(* struct sockem_conf and its defaults (sockem_connect).                   *)
(***************************************************************************)
DefaultThruput == 1073741824
DefaultBufsz == 1048576

DefaultConf ==
    [tx_thruput |-> DefaultThruput, rx_thruput |-> DefaultThruput,
     delay |-> 0, jitter |-> 0, debug |-> 0, bufsz |-> DefaultBufsz]

\* calloc'ed struct sockem_conf
ZeroConf ==
    [tx_thruput |-> 0, rx_thruput |-> 0,
     delay |-> 0, jitter |-> 0, debug |-> 0, bufsz |-> 0]

(***************************************************************************)
(* sockem_set0: set a single conf key.  Returns [r, conf]: r = 0 on        *)
(* success, -1 on failure, conf the session's pending config afterwards.   *)
(***************************************************************************)
RECURSIVE sockem_set0(_, _, _)
RECURSIVE Set0Tokens(_, _, _)

\* the while (*s) loop of sockem_set0 over the strdupa'd copy b, s an index
Set0Tokens(conf, b, s) ==
    IF s > Len(b) \/ b[s] = NUL THEN [r |-> 0, conf |-> conf]
    ELSE
      LET t == StrChr(b, s, ",")
          d == StrChr(b, s, "=")
          b1 == IF t # 0 THEN [b EXCEPT ![t] = NUL] ELSE b
      IN IF d = 0 THEN [r |-> -1, conf |-> conf]
         ELSE
           LET b2 == [b1 EXCEPT ![d] = NUL]
               res == sockem_set0(conf, CStr(b2, s), atoi(CStr(b2, d + 1)))
           IN IF res.r = -1 THEN [r |-> -1, conf |-> res.conf]
              ELSE IF t = 0 THEN [r |-> 0, conf |-> res.conf]
              ELSE Set0Tokens(res.conf, b2, s + 1)

sockem_set0(conf, key, val) ==
    IF key = K_rx_thruput \/ key = K_rx_throughput
      THEN [r |-> 0, conf |-> [conf EXCEPT !.rx_thruput = val]]
    ELSE IF key = K_tx_thruput \/ key = K_tx_throughput
      THEN [r |-> 0, conf |-> [conf EXCEPT !.tx_thruput = val]]
    ELSE IF key = K_delay
      THEN [r |-> 0, conf |-> [conf EXCEPT !.delay = val]]
    ELSE IF key = K_jitter
      THEN [r |-> 0, conf |-> [conf EXCEPT !.jitter = val]]
    ELSE IF key = K_rx_bufsz
      THEN [r |-> 0, conf |-> [conf EXCEPT !.bufsz = val]]
    ELSE IF key = K_debug
      THEN [r |-> 0, conf |-> [conf EXCEPT !.debug = val]]
    ELSE IF key = K_true
      THEN [r |-> 0, conf |-> conf]
    ELSE IF StrChr(key, 1, ",") = 0
      THEN Set0Tokens(conf, key, 1)
    ELSE [r |-> -1, conf |-> conf]

(***************************************************************************)
(* sockem_vset: the pairs of the va_list up to the NULL key, in order,     *)
(* each applied to skm->conf in place; stops at the first failing pair.    *)
(***************************************************************************)
RECURSIVE VsetFrom(_, _, _)
VsetFrom(conf, args, i) ==
    IF i > Len(args) THEN [r |-> 0, conf |-> conf]
    ELSE
      LET res == sockem_set0(conf, args[i].key, args[i].val)
      IN IF res.r = -1 THEN [r |-> -1, conf |-> res.conf]
         ELSE VsetFrom(res.conf, args, i + 1)

sockem_vset(conf, args) == VsetFrom(conf, args, 1)

(***************************************************************************)
(* State.                                                                  *)
(*                                                                         *)
(* Descriptors are numbers: the application's sockets are AppFds, the      *)
(* descriptors a session opens are LsFd(s), PsFd(s), CsFd(s); -1 is the    *)
(* "no descriptor" value of the code.                                      *)
(***************************************************************************)
VARIABLES
    skm,      \* [session -> struct sockem_s]
    fwd,      \* [session -> locals and position of its sockem_run thread]
    app,      \* the calling thread: position, session, locals
    sockems,  \* the list of linked sessions, head first
    fdopen,   \* the descriptors currently open
    nclose,   \* [descriptor -> close() calls made on it by sockem]
    conn,     \* [session -> the redirected connection on its listener]
    io,       \* [session -> bytes read and written per direction]
    ret,      \* [session -> what sockem_connect / sockem_close returned]
    thr,      \* [session -> thread creations, joins, entries into SOCKEM_RUN]
    last,     \* outcome of the last sockem_set / sockem_find call
    proc,     \* "running", or "aborted" once the process died
    sockem_lock  \* the lock of the list (LIBSOCKEM_PRELOAD): "free" or its holder

vars ==
    <<skm, fwd, app, sockems, fdopen, nclose, conn, io, ret, thr, last, proc,
      sockem_lock>>

Sess == DOMAIN skm

NoFd == -1
AppFds == {3, 4}
LsFd(s) == 10 * s + 1
PsFd(s) == 10 * s + 2
CsFd(s) == 10 * s + 3
InternalFds(s) == {LsFd(s), PsFd(s), CsFd(s)}

\* the bytes each end offers: direction 0 is application -> peer (read from
\* the accepted connection, written to the peer socket), direction 1 the reverse
Source(d, n) == [k \in 1..n |-> 10 * (d + 1) + k]

Min(a, b) == IF a < b THEN a ELSE b

\* struct sockem_s after calloc()
NewSkm ==
    [mem |-> "none", run |-> "INIT", as |-> NoFd, ls |-> NoFd, ps |-> NoFd,
     bufsz |-> 0, linked |-> 0, thrd |-> "none", lock |-> "free",
     conf |-> ZeroConf, use |-> ZeroConf]

\* sockem_run before it is started
NewFwd ==
    [pc |-> "none", cs |-> NoFd, ls |-> NoFd, pfd1 |-> NoFd, waittime |-> 0,
     i |-> 0, rev |-> <<"none", "none">>, buf |-> <<>>, delay |-> 0, tmp |-> NoFd]

NewIo == [rd |-> <<0, 0>>, wr |-> <<<<>>, <<>>>>, ndata |-> 0]

\* no sockem_set or sockem_find call has returned since the last other call
NoCall == [op |-> "none"]

\* a call without config arguments (the NULL key comes first)
NoInput == [form |-> "typed", toks |-> <<>>]

\* the calling thread outside of any call
NewApp ==
    [pc |-> "idle", s |-> 0, from |-> "none", tmp |-> NoFd, fd |-> NoFd,
     in |-> NoInput, k |-> 0, before |-> ZeroConf]

InitWith(nsess, ndata, nsets) ==
    /\ skm = [s \in 1..nsess |-> NewSkm]
    /\ fwd = [s \in 1..nsess |-> NewFwd]
    /\ app = NewApp
    /\ sockems = <<>>
    /\ fdopen = AppFds
    /\ nclose = [f \in AppFds \cup UNION {InternalFds(s) : s \in 1..nsess} |-> 0]
    /\ conn = [s \in 1..nsess |-> "none"]
    /\ io = [s \in 1..nsess |-> [NewIo EXCEPT !.ndata = ndata]]
    /\ ret = [s \in 1..nsess |-> [connect |-> "none", close |-> "none", sets |-> nsets,
                                  closeAt |-> "none"]]
    /\ thr = [s \in 1..nsess |-> [created |-> 0, joined |-> 0, badjoin |-> 0, ran |-> 0]]
    /\ last = NoCall
    /\ proc = "running"
    /\ sockem_lock = "free"

\* one session, its forwarder thread and the calling thread
Init == InitWith(1, MaxData, MaxSets)

(***************************************************************************)
(* Primitives.                                                             *)
(***************************************************************************)
\* sockem_close0(fd): close(2); closing -1 or a closed descriptor is EBADF
Close0(fd) ==
    /\ fdopen' = fdopen \ {fd}
    /\ nclose' = IF fd \in DOMAIN nclose THEN [nclose EXCEPT ![fd] = @ + 1] ELSE nclose

\* mtx_unlock by thread t.  Unlocking a mutex the thread does not hold is
\* undefined: a default mutex is released whoever holds it, an error-checking
\* one is left as it is.
UnlockOutcomes(l, t) == IF l = t THEN {"free"} ELSE {"free", l}

\* sockem_calc_waittime
sockem_calc_waittime(use) ==
    IF use.delay + use.jitter = 0 THEN 1000
    ELSE IF use.jitter < use.delay THEN use.jitter ELSE use.delay

\* sockem_find: the first session of the list whose application socket is fd
RECURSIVE FindFrom(_, _, _)
FindFrom(list, i, fd) ==
    IF i > Len(list) THEN 0
    ELSE IF skm[list[i]].as = fd THEN list[i]
    ELSE FindFrom(list, i + 1, fd)

sockem_find(fd) == FindFrom(sockems, 1, fd)

\* ListRemove taking the head of the list, whichever session is removed
ListRemoveHead(list, s) == IF list = <<>> THEN list ELSE Tail(list)

\* LIST_REMOVE
ListRemove(list, s) == SelectSeq(list, LAMBDA x : x # s)

\* LIST_INSERT_HEAD
ListInsertHead(list, s) == <<s>> \o list

(***************************************************************************)
(* Inputs of the calls.  A config argument is a list of tokens, passed     *)
(* either as typed (key, value) pairs or as one string "k=v,k=v" (with     *)
(* value 0, as the preload adapter passes SOCKEM_CONF).                    *)
(***************************************************************************)
K_frobnicate == <<"f","r","o","b","n","i","c","a","t","e">>
K_bogus == <<"b","o","g","u","s">>

T_delay50 == [key |-> K_delay, txt |-> <<"5","0">>, val |-> 50, eq |-> TRUE]
T_jitter10 == [key |-> K_jitter, txt |-> <<"1","0">>, val |-> 10, eq |-> TRUE]
T_frobnicate == [key |-> K_frobnicate, txt |-> <<"1">>, val |-> 1, eq |-> TRUE]
\* a token without '='
T_bogus == [key |-> K_bogus, txt |-> <<>>, val |-> 0, eq |-> FALSE]

\* the string form of a token list: tokens joined by ','
RECURSIVE JoinTokens(_, _)
JoinTokens(toks, i) ==
    IF i > Len(toks) THEN <<>>
    ELSE (IF i > 1 THEN <<",">> ELSE <<>>)
         \o toks[i].key
         \o (IF toks[i].eq THEN <<"=">> \o toks[i].txt ELSE <<>>)
         \o JoinTokens(toks, i + 1)

\* the va_list of a call: the pairs before the NULL key
TypedArgs(toks) == [i \in 1..Len(toks) |-> [key |-> toks[i].key, val |-> toks[i].val]]
StringArgs(toks) == <<[key |-> JoinTokens(toks, 1), val |-> 0]>>
ArgsOf(in) == IF in.form = "typed" THEN TypedArgs(in.toks) ELSE StringArgs(in.toks)

Typed(toks) == [form |-> "typed", toks |-> toks]
Bulk(toks) == [form |-> "string", toks |-> toks]

\* initial configs offered to sockem_connect
ConnectInputs ==
    {Typed(<<>>), Typed(<<T_delay50>>), Bulk(<<T_delay50, T_bogus>>)}

\* arguments offered to sockem_set
SetInputs ==
    {Typed(<<T_delay50, T_jitter10>>), Typed(<<T_frobnicate>>),
     Typed(<<T_jitter10, T_frobnicate>>),
     Bulk(<<T_jitter10>>), Bulk(<<T_delay50, T_jitter10>>), Bulk(<<T_delay50, T_bogus>>)}

\* the pending configs the inputs above can produce, and the pairs they pass
ConfSpace ==
    {[DefaultConf EXCEPT !.delay = d, !.jitter = j] : d \in {0, 50}, j \in {0, 10}}

ArgSpace ==
    UNION {{ArgsOf(in)[k] : k \in 1..Len(ArgsOf(in))} : in \in ConnectInputs \cup SetInputs}

\* sockem_set0 tabulated over them: each call of the model is computed once
Set0Table == [c \in ConfSpace, a \in ArgSpace |-> sockem_set0(c, a.key, a.val)]

(***************************************************************************)
(* sockem_connect.                                                         *)
(***************************************************************************)
SetupStages == {"socket_ls", "bind", "getsockname", "listen", "socket_ps", "connect_ps"}

\* the descriptors opened and closed on the path that fails at stage
SetupOpened(s, stage) ==
    IF stage = "socket_ls" THEN {}
    ELSE IF stage \in {"bind", "getsockname", "listen", "socket_ps"} THEN {LsFd(s)}
    ELSE {LsFd(s), PsFd(s)}

SetupClosed(s, stage) ==
    IF stage = "socket_ls" THEN {}
    ELSE IF stage \in {"bind", "getsockname", "listen", "socket_ps"} THEN {LsFd(s)}
    ELSE {LsFd(s), PsFd(s)}

AppIdle == proc = "running" /\ app.pc = "idle"

AppAt(pc) == proc = "running" /\ app.pc = pc

\* sessions are allocated in order
NextSession(s) ==
    /\ s \in Sess
    /\ ret[s].connect = "none"
    /\ \A x \in Sess : x < s => ret[x].connect # "none"

\* application sockets not attached to a session still allocated; the
\* application connects the lowest of them
FreeAppFds == AppFds \ {skm[x].as : x \in {y \in Sess : skm[y].mem = "alloc"}}

\* lines 350-382: an internal socket cannot be set up; return NULL
AppConnectFail(s, stage) ==
    /\ AppIdle
    /\ NextSession(s)
    /\ fdopen' = (fdopen \cup SetupOpened(s, stage)) \ SetupClosed(s, stage)
    /\ nclose' = [f \in DOMAIN nclose |->
                    IF f \in SetupClosed(s, stage) THEN nclose[f] + 1 ELSE nclose[f]]
    /\ ret' = [ret EXCEPT ![s].connect = "null"]
    /\ last' = NoCall
    /\ UNCHANGED <<skm, fwd, app, sockems, conn, io, thr, proc, sockem_lock>>

\* lines 350-405: sockets set up, handle created, passed configuration applied
AppConnectOpen(s, fd, in) ==
    /\ AppIdle
    /\ NextSession(s)
    /\ fd \in FreeAppFds
    /\ \A g \in FreeAppFds : fd <= g
    /\ LET res == sockem_vset(DefaultConf, ArgsOf(in))
       IN /\ skm' = [skm EXCEPT ![s] =
                       [NewSkm EXCEPT !.mem = "alloc", !.as = fd, !.ls = LsFd(s),
                                      !.ps = PsFd(s), !.conf = res.conf]]
          /\ app' = [app EXCEPT !.s = s, !.from = "connect",
                                !.pc = IF res.r = -1 THEN "close_lock" ELSE "conn_create"]
    /\ fdopen' = fdopen \cup {LsFd(s), PsFd(s)}
    /\ ret' = [ret EXCEPT ![s].connect = "busy"]
    /\ last' = NoCall
    /\ UNCHANGED <<fwd, sockems, nclose, conn, io, thr, proc, sockem_lock>>

\* lines 407-416: run = START and the forwarder thread is created, or not
AppConnectCreate(ok) ==
    /\ proc = "running"
    /\ app.pc = "conn_create"
    /\ skm[app.s].lock = "free"
    /\ skm' = [skm EXCEPT ![app.s].run = "START",
                          ![app.s].thrd = IF ok THEN "created" ELSE @]
    /\ fwd' = IF ok THEN [fwd EXCEPT ![app.s].pc = "start"] ELSE fwd
    /\ thr' = IF ok THEN [thr EXCEPT ![app.s].created = @ + 1] ELSE thr
    /\ app' = [app EXCEPT !.pc = IF ok THEN "conn_redirect" ELSE "close_lock"]
    /\ UNCHANGED <<sockems, fdopen, nclose, conn, io, ret, last, proc, sockem_lock>>

\* line 419: connect the application socket to the listen socket.  "ok": the
\* connection is established; "inprogress": connect returns -1 (EINPROGRESS on
\* a non-blocking socket) and the connection still arrives; "fail": no
\* connection is made.
AppConnectRedirect(outcome) ==
    /\ proc = "running"
    /\ app.pc = "conn_redirect"
    /\ outcome \in {"ok", "inprogress", "fail"}
    /\ conn' = [conn EXCEPT ![app.s] = IF outcome = "fail" THEN "refused" ELSE "pending"]
    /\ app' = [app EXCEPT !.pc = IF outcome = "ok" THEN "conn_link" ELSE "close_lock"]
    /\ UNCHANGED <<skm, fwd, sockems, fdopen, nclose, io, ret, thr, last, proc, sockem_lock>>

\* lines 424-426
AppConnectLink ==
    /\ proc = "running"
    /\ app.pc = "conn_link"
    /\ skm[app.s].lock = "free"
    /\ skm' = [skm EXCEPT ![app.s].linked = 1]
    /\ app' = [app EXCEPT !.pc = "conn_insert"]
    /\ UNCHANGED <<fwd, sockems, fdopen, nclose, conn, io, ret, thr, last, proc, sockem_lock>>

\* lines 428-437: the session goes on the list (with LIBSOCKEM_PRELOAD, under
\* sockem_lock) and the handle is returned
AppConnectInsert ==
    /\ proc = "running"
    /\ app.pc = "conn_insert"
    /\ sockem_lock = "free"
    /\ sockems' = ListInsertHead(sockems, app.s)
    /\ ret' = [ret EXCEPT ![app.s].connect = "ok"]
    /\ app' = NewApp
    /\ UNCHANGED <<skm, fwd, fdopen, nclose, conn, io, thr, last, proc, sockem_lock>>

(***************************************************************************)
(* sockem_set (sockem_vset under the session lock) and sockem_find.        *)
(***************************************************************************)
Live(s) == s \in Sess /\ ret[s].connect = "ok" /\ ret[s].close = "none"

\* sockem_set -> sockem_vset line 520: the session lock is taken
AppSetCall(s, in) ==
    /\ AppIdle
    /\ Live(s)
    /\ ret[s].sets > 0
    /\ skm[s].lock = "free"
    /\ skm' = [skm EXCEPT ![s].lock = "app"]
    /\ app' = [app EXCEPT !.pc = "set_pair", !.s = s, !.from = "set", !.in = in,
                          !.k = 1, !.before = skm[s].conf]
    /\ ret' = [ret EXCEPT ![s].sets = @ - 1]
    /\ last' = NoCall
    /\ UNCHANGED <<fwd, sockems, fdopen, nclose, conn, io, thr, proc, sockem_lock>>

\* lines 521-527: the next pair of the va_list is applied to skm->conf; on a
\* failing pair the lock is released and -1 returned
AppSetPair ==
    /\ AppAt("set_pair")
    /\ app.k <= Len(ArgsOf(app.in))
    /\ LET arg == ArgsOf(app.in)[app.k]
           res == Set0Table[skm[app.s].conf, arg]
       IN IF res.r = -1
            THEN /\ \E l \in UnlockOutcomes(skm[app.s].lock, "app") :
                       skm' = [skm EXCEPT ![app.s].conf = res.conf, ![app.s].lock = l]
                 /\ last' = [op |-> "set", s |-> app.s, in |-> app.in, r |-> -1,
                             before |-> app.before]
                 /\ app' = NewApp
            ELSE /\ skm' = [skm EXCEPT ![app.s].conf = res.conf]
                 /\ last' = last
                 /\ app' = [app EXCEPT !.k = @ + 1]
    /\ UNCHANGED <<fwd, sockems, fdopen, nclose, conn, io, ret, thr, proc, sockem_lock>>

\* lines 521, 528-530: the NULL key ends the list; unlock and return 0
AppSetReturn ==
    /\ AppAt("set_pair")
    /\ app.k > Len(ArgsOf(app.in))
    /\ \E l \in UnlockOutcomes(skm[app.s].lock, "app") :
          skm' = [skm EXCEPT ![app.s].lock = l]
    /\ last' = [op |-> "set", s |-> app.s, in |-> app.in, r |-> 0,
                before |-> app.before]
    /\ app' = NewApp
    /\ UNCHANGED <<fwd, sockems, fdopen, nclose, conn, io, ret, thr, proc, sockem_lock>>

AppFind(fd) ==
    /\ AppIdle
    /\ fd \in AppFds
    /\ last' = [op |-> "find", fd |-> fd, r |-> sockem_find(fd)]
    /\ last' # last
    /\ UNCHANGED <<skm, fwd, app, sockems, fdopen, nclose, conn, io, ret, thr, proc, sockem_lock>>

(***************************************************************************)
(* sockem_close, called by the application on a returned handle ("api") or *)
(* by sockem_connect on its failure paths ("connect").  sockem_close_all   *)
(* is stepped descriptor by descriptor: test, then close and reset.        *)
(***************************************************************************)
AppCloseCall(s) ==
    /\ AppIdle
    /\ Live(s)
    /\ app' = [app EXCEPT !.pc = "close_lock", !.s = s, !.from = "api"]
    /\ ret' = [ret EXCEPT ![s].close = "busy"]
    /\ last' = NoCall
    /\ UNCHANGED <<skm, fwd, sockems, fdopen, nclose, conn, io, thr, proc, sockem_lock>>

\* where the forwarder is blocked, if it is, when sockem_close takes the lock
Blocking(pc) == IF pc \in {"accept", "poll", "sleep"} THEN pc ELSE "other"

\* line 442
AppCloseLock ==
    /\ AppAt("close_lock")
    /\ skm[app.s].lock = "free"
    /\ skm' = [skm EXCEPT ![app.s].lock = "app"]
    /\ app' = [app EXCEPT !.pc = "close_run"]
    /\ ret' = [ret EXCEPT ![app.s].closeAt = Blocking(fwd[app.s].pc)]
    /\ UNCHANGED <<fwd, sockems, fdopen, nclose, conn, io, thr, last, proc, sockem_lock>>

\* AppCloseRun that leaves the run state alone while the thread runs
AppCloseRunNoTerm ==
    /\ AppAt("close_run")
    /\ IF skm[app.s].run \in {"START", "RUN"}
         THEN /\ skm' = skm
              /\ app' = [app EXCEPT !.pc = "close_unlink"]
         ELSE /\ skm' = skm
              /\ app' = [app EXCEPT !.pc = "ca_ls"]
    /\ UNCHANGED <<fwd, sockems, fdopen, nclose, conn, io, ret, thr, last, proc, sockem_lock>>

\* AppCloseRun that closes the descriptors itself whatever the run state is
AppCloseRunAlwaysCloses ==
    /\ AppAt("close_run")
    /\ skm' = skm
    /\ app' = [app EXCEPT !.pc = "ca_ls"]
    /\ UNCHANGED <<fwd, sockems, fdopen, nclose, conn, io, ret, thr, last, proc, sockem_lock>>

\* lines 446-450
AppCloseRun ==
    /\ AppAt("close_run")
    /\ IF skm[app.s].run \in {"START", "RUN"}
         THEN /\ skm' = [skm EXCEPT ![app.s].run = "TERM"]
              /\ app' = [app EXCEPT !.pc = "close_unlink"]
         ELSE /\ skm' = skm
              /\ app' = [app EXCEPT !.pc = "ca_ls"]
    /\ UNCHANGED <<fwd, sockems, fdopen, nclose, conn, io, ret, thr, last, proc, sockem_lock>>

\* line 212
AppCaLs ==
    /\ AppAt("ca_ls")
    /\ app' = IF skm[app.s].ls # NoFd
                THEN [app EXCEPT !.pc = "ca_ls_close", !.tmp = skm[app.s].ls]
                ELSE [app EXCEPT !.pc = "ca_ps"]
    /\ UNCHANGED <<skm, fwd, sockems, fdopen, nclose, conn, io, ret, thr, last, proc, sockem_lock>>

\* lines 213-214
AppCaLsClose ==
    /\ AppAt("ca_ls_close")
    /\ Close0(app.tmp)
    /\ skm' = [skm EXCEPT ![app.s].ls = NoFd]
    /\ app' = [app EXCEPT !.pc = "ca_ps", !.tmp = NoFd]
    /\ UNCHANGED <<fwd, sockems, conn, io, ret, thr, last, proc, sockem_lock>>

\* line 217
AppCaPs ==
    /\ AppAt("ca_ps")
    /\ app' = IF skm[app.s].ps # NoFd
                THEN [app EXCEPT !.pc = "ca_ps_close", !.tmp = skm[app.s].ps]
                ELSE [app EXCEPT !.pc = "ca_run"]
    /\ UNCHANGED <<skm, fwd, sockems, fdopen, nclose, conn, io, ret, thr, last, proc, sockem_lock>>

\* lines 218-219
AppCaPsClose ==
    /\ AppAt("ca_ps_close")
    /\ Close0(app.tmp)
    /\ skm' = [skm EXCEPT ![app.s].ps = NoFd]
    /\ app' = [app EXCEPT !.pc = "ca_run", !.tmp = NoFd]
    /\ UNCHANGED <<fwd, sockems, conn, io, ret, thr, last, proc, sockem_lock>>

\* line 222
AppCaRun ==
    /\ AppAt("ca_run")
    /\ skm' = [skm EXCEPT ![app.s].run = "TERM"]
    /\ app' = [app EXCEPT !.pc = "close_unlink"]
    /\ UNCHANGED <<fwd, sockems, fdopen, nclose, conn, io, ret, thr, last, proc, sockem_lock>>

\* lines 453-456
AppCloseUnlink ==
    /\ AppAt("close_unlink")
    /\ sockems' = IF skm[app.s].linked # 0 THEN ListRemove(sockems, app.s) ELSE sockems
    /\ \E l \in UnlockOutcomes(skm[app.s].lock, "app") :
          skm' = [skm EXCEPT ![app.s].lock = l]
    /\ app' = [app EXCEPT !.pc = "close_join"]
    /\ UNCHANGED <<fwd, fdopen, nclose, conn, io, ret, thr, last, proc, sockem_lock>>

\* AppCloseJoin without the wait: the thread is detached, not joined
AppCloseJoinNoWait ==
    /\ AppAt("close_join")
    /\ skm[app.s].thrd = "created"
    /\ thr' = [thr EXCEPT ![app.s].joined = @ + 1]
    /\ app' = [app EXCEPT !.pc = "close_free"]
    /\ UNCHANGED <<skm, fwd, sockems, fdopen, nclose, conn, io, ret, last, proc, sockem_lock>>

\* line 458: thrd_join returns once the forwarder thread has exited
AppCloseJoin ==
    /\ AppAt("close_join")
    /\ skm[app.s].thrd = "created"
    /\ fwd[app.s].pc = "exited"
    /\ thr' = [thr EXCEPT ![app.s].joined = @ + 1]
    /\ app' = [app EXCEPT !.pc = "close_free"]
    /\ UNCHANGED <<skm, fwd, sockems, fdopen, nclose, conn, io, ret, last, proc, sockem_lock>>

\* line 458 on a handle whose thread was never created: skm->thrd is the
\* zeroed pthread_t of calloc, and joining it is undefined: the process
\* crashes, or the call fails (ESRCH) and sockem_close goes on
AppCloseJoinNoThread(crash) ==
    /\ AppAt("close_join")
    /\ skm[app.s].thrd = "none"
    /\ thr' = [thr EXCEPT ![app.s].badjoin = @ + 1]
    /\ IF crash
         THEN /\ proc' = "aborted"
              /\ app' = app
         ELSE /\ proc' = proc
              /\ app' = [app EXCEPT !.pc = "close_free"]
    /\ UNCHANGED <<skm, fwd, sockems, fdopen, nclose, conn, io, ret, last, sockem_lock>>

\* lines 460-464: mtx_destroy, free; sockem_close returns: to the application,
\* to a failure path of sockem_connect that returns NULL (lines 403, 414,
\* 421), or to the close() of the preload adapter (line 602)
AppCloseFree ==
    /\ AppAt("close_free")
    /\ skm' = [skm EXCEPT ![app.s].mem = "freed", ![app.s].lock = "destroyed"]
    /\ ret' = IF app.from = "connect"
                THEN [ret EXCEPT ![app.s].connect = "null"]
                ELSE [ret EXCEPT ![app.s].close = "done"]
    /\ app' = IF app.from = "adapter"
                THEN [app EXCEPT !.pc = "adapter_unlock"]
                ELSE NewApp
    /\ UNCHANGED <<fwd, sockems, fdopen, nclose, conn, io, thr, last, proc, sockem_lock>>

(***************************************************************************)
(* sockem_run: the forwarder thread of session s.                          *)
(***************************************************************************)
FwdAt(s, pc) == proc = "running" /\ s \in Sess /\ fwd[s].pc = pc

\* FwdStart that sets SOCKEM_RUN whatever the run state is
FwdStartAlwaysRuns(s) ==
    /\ FwdAt(s, "start")
    /\ skm[s].lock = "free"
    /\ skm' = [skm EXCEPT ![s].run = "RUN",
                          ![s].use = skm[s].conf,
                          ![s].bufsz = skm[s].conf.bufsz]
    /\ fwd' = [fwd EXCEPT ![s].pc = "accept", ![s].ls = skm[s].ls]
    /\ thr' = [thr EXCEPT ![s].ran = IF skm[s].run = "START" THEN @ + 1 ELSE @]
    /\ UNCHANGED <<app, sockems, fdopen, nclose, conn, io, ret, last, proc, sockem_lock>>

\* lines 239-247
FwdStart(s) ==
    /\ FwdAt(s, "start")
    /\ skm[s].lock = "free"
    /\ skm' = [skm EXCEPT ![s].run = IF @ = "START" THEN "RUN" ELSE @,
                          ![s].use = skm[s].conf,
                          ![s].bufsz = skm[s].conf.bufsz]
    /\ fwd' = [fwd EXCEPT ![s].pc = "accept", ![s].ls = skm[s].ls]
    /\ thr' = [thr EXCEPT ![s].ran = IF skm[s].run = "START" THEN @ + 1 ELSE @]
    /\ UNCHANGED <<app, sockems, fdopen, nclose, conn, io, ret, last, proc, sockem_lock>>

\* line 250: accept() returns the redirected connection once it is there
FwdAccept(s) ==
    /\ FwdAt(s, "accept")
    /\ fwd[s].ls \in fdopen
    /\ conn[s] = "pending"
    /\ conn' = [conn EXCEPT ![s] = "accepted"]
    /\ fdopen' = fdopen \cup {CsFd(s)}
    /\ fwd' = [fwd EXCEPT ![s].pc = "setup", ![s].cs = CsFd(s)]
    /\ UNCHANGED <<skm, app, sockems, nclose, io, ret, thr, last, proc, sockem_lock>>

\* line 250: accept() fails (EBADF on a closed listener, EINTR, EMFILE, ...)
FwdAcceptFail(s) ==
    /\ FwdAt(s, "accept")
    /\ fwd' = [fwd EXCEPT ![s].pc = "accept_failed"]
    /\ UNCHANGED <<skm, app, sockems, fdopen, nclose, conn, io, ret, thr, last, proc, sockem_lock>>

\* lines 251-260: with run = TERM the thread leaves by done, holding the lock:
\* otherwise assert(cs != -1) aborts the process, or, compiled with NDEBUG,
\* the thread locks its own lock again at line 267 and stays there
FwdAcceptFailed(s, ndebug) ==
    /\ FwdAt(s, "accept_failed")
    /\ skm[s].lock = "free"
    /\ skm' = [skm EXCEPT ![s].lock = "fwd"]
    /\ IF skm[s].run = "TERM"
         THEN /\ fwd' = [fwd EXCEPT ![s].pc = "done"]
              /\ proc' = proc
         ELSE IF ndebug
         THEN /\ fwd' = [fwd EXCEPT ![s].pc = "relock"]
              /\ proc' = proc
         ELSE /\ fwd' = fwd
              /\ proc' = "aborted"
    /\ UNCHANGED <<app, sockems, fdopen, nclose, conn, io, ret, thr, last, sockem_lock>>

\* lines 263-272
FwdSetup(s) ==
    /\ FwdAt(s, "setup")
    /\ skm[s].lock = "free"
    /\ fwd' = [fwd EXCEPT ![s].pc = "loop_lock", ![s].pfd1 = skm[s].ps,
                          ![s].waittime = sockem_calc_waittime(skm[s].use)]
    /\ UNCHANGED <<skm, app, sockems, fdopen, nclose, conn, io, ret, thr, last, proc, sockem_lock>>

\* LoopCheck that keeps the lock while it goes to poll
LoopCheckKeepsLock(s, sk) ==
    IF sk[s].run = "RUN"
      THEN /\ skm' = [sk EXCEPT ![s].lock = "fwd"]
           /\ fwd' = [fwd EXCEPT ![s].pc = "poll"]
      ELSE /\ skm' = [sk EXCEPT ![s].lock = "fwd"]
           /\ fwd' = [fwd EXCEPT ![s].pc = "done"]

\* LoopCheck that goes on polling whatever the run state is
LoopCheckKeepsRunning(s, sk) ==
    /\ skm' = sk
    /\ fwd' = [fwd EXCEPT ![s].pc = "poll"]

\* the while condition (line 275), then line 279 or the way out
LoopCheck(s, sk) ==
    IF sk[s].run = "RUN"
      THEN /\ skm' = sk
           /\ fwd' = [fwd EXCEPT ![s].pc = "poll"]
      ELSE /\ skm' = [sk EXCEPT ![s].lock = "fwd"]
           /\ fwd' = [fwd EXCEPT ![s].pc = "done"]

\* lines 274-279
FwdLoopEnter(s) ==
    /\ FwdAt(s, "loop_lock")
    /\ skm[s].lock = "free"
    /\ LoopCheck(s, skm)
    /\ UNCHANGED <<app, sockems, fdopen, nclose, conn, io, ret, thr, last, proc, sockem_lock>>

\* FwdLoopEnd that copies the config without waiting for the lock
FwdLoopEndNoLock(s) ==
    /\ FwdAt(s, "loop_end")
    /\ LoopCheck(s, [skm EXCEPT ![s].use = skm[s].conf])
    /\ UNCHANGED <<app, sockems, fdopen, nclose, conn, io, ret, thr, last, proc, sockem_lock>>

\* lines 299-300, then 275-279
FwdLoopEnd(s) ==
    /\ FwdAt(s, "loop_end")
    /\ skm[s].lock = "free"
    /\ LoopCheck(s, [skm EXCEPT ![s].use = skm[s].conf])
    /\ UNCHANGED <<app, sockems, fdopen, nclose, conn, io, ret, thr, last, proc, sockem_lock>>

\* the for loop (lines 285-297) from descriptor i on: descriptors without
\* event are passed over, and the loop ends after pfd[1]; the locals of the
\* loop are dead after it
LoopFrom(f, i) ==
    IF i < 2 /\ f.rev[i + 1] # "none" THEN [f EXCEPT !.i = i, !.pc = "events"]
    ELSE IF i < 1 /\ f.rev[i + 2] # "none" THEN [f EXCEPT !.i = i + 1, !.pc = "events"]
    ELSE [f EXCEPT !.i = 0, !.rev = <<"none", "none">>, !.pc = "loop_end"]

\* i++ (line 285)
Advance(f) == LoopFrom(f, f.i + 1)

\* break (line 294)
Break(f) == LoopFrom(f, 2)

PollEvents == {"none", "in", "hup"}

\* line 280: poll() returns the events of the two descriptors (r > 0) or
\* times out (r = 0, no event)
FwdPoll(s, rv) ==
    /\ FwdAt(s, "poll")
    /\ rv \in [1..2 -> PollEvents]
    /\ fwd' = [fwd EXCEPT ![s] = LoopFrom([fwd[s] EXCEPT !.rev = rv], 0)]
    /\ UNCHANGED <<skm, app, sockems, fdopen, nclose, conn, io, ret, thr, last, proc, sockem_lock>>

\* lines 280-283: poll() fails; break, with the lock not held
FwdPollFail(s) ==
    /\ FwdAt(s, "poll")
    /\ fwd' = [fwd EXCEPT ![s].pc = "done"]
    /\ UNCHANGED <<skm, app, sockems, fdopen, nclose, conn, io, ret, thr, last, proc, sockem_lock>>

\* lines 286-287: POLLHUP or POLLERR on pfd[i]; run is written without the lock
FwdHup(s) ==
    /\ FwdAt(s, "events")
    /\ fwd[s].rev[fwd[s].i + 1] = "hup"
    /\ skm' = [skm EXCEPT ![s].run = "TERM"]
    /\ fwd' = [fwd EXCEPT ![s] = Advance(fwd[s])]
    /\ UNCHANGED <<app, sockems, fdopen, nclose, conn, io, ret, thr, last, proc, sockem_lock>>

\* pfd[i].fd and pfd[i^1].fd
Ifd(f) == IF f.i = 0 THEN f.cs ELSE f.pfd1
Ofd(f) == IF f.i = 0 THEN f.pfd1 ELSE f.cs

\* the failures recv() may return on ifd: EAGAIN, another error, end of stream
RecvFailures(s) ==
    IF Ifd(fwd[s]) \notin fdopen THEN {"err"} ELSE {"eagain", "err", "eof"}

\* the byte counts recv() may return on ifd
RecvSizes(s) ==
    IF Ifd(fwd[s]) \notin fdopen THEN {}
    ELSE 1..Min(skm[s].bufsz, io[s].ndata - io[s].rd[fwd[s].i + 1])

\* a / b of C ints, b > 0: the quotient is truncated toward zero
CDiv(a, b) == IF a >= 0 THEN a \div b ELSE 0 - ((0 - a) \div b)

\* RecvDelay without the jitter
RecvDelayNoJitter(use) == use.delay

\* the delay of sockem_recv_fwd (line 192)
RecvDelay(use) == use.delay + CDiv(use.jitter, 2)

\* lines 289-295 with sockem_recv_fwd lines 179-189: nothing is read
FwdRecvNone(s, out) ==
    /\ FwdAt(s, "events")
    /\ fwd[s].rev[fwd[s].i + 1] = "in"
    /\ out \in RecvFailures(s)
    /\ IF out = "eagain"
         THEN /\ fwd' = [fwd EXCEPT ![s] = Advance(fwd[s])]
              /\ skm' = skm
         ELSE /\ fwd' = [fwd EXCEPT ![s] = Break(fwd[s])]
              /\ skm' = [skm EXCEPT ![s].run = "TERM"]
    /\ UNCHANGED <<app, sockems, fdopen, nclose, conn, io, ret, thr, last, proc, sockem_lock>>

\* sockem_recv_fwd lines 179-193: n bytes are read into the buffer
FwdRecv(s, n) ==
    /\ FwdAt(s, "events")
    /\ fwd[s].rev[fwd[s].i + 1] = "in"
    /\ n \in RecvSizes(s)
    /\ LET f == fwd[s]
           d == f.i + 1
       IN /\ fwd' = [fwd EXCEPT ![s].buf =
                                   SubSeq(Source(f.i, io[s].ndata),
                                          io[s].rd[d] + 1, io[s].rd[d] + n),
                                ![s].delay = RecvDelay(skm[s].use),
                                ![s].pc = IF RecvDelay(skm[s].use) # 0
                                            THEN "sleep" ELSE "send"]
          /\ io' = [io EXCEPT ![s].rd[d] = @ + n]
    /\ UNCHANGED <<skm, app, sockems, fdopen, nclose, conn, ret, thr, last, proc, sockem_lock>>

\* line 194: usleep(delay * 1000) returns
FwdSleep(s) ==
    /\ FwdAt(s, "sleep")
    /\ fwd' = [fwd EXCEPT ![s].pc = "send"]
    /\ UNCHANGED <<skm, app, sockems, fdopen, nclose, conn, io, ret, thr, last, proc, sockem_lock>>

\* what send() may return on ofd for r bytes: -1, or the bytes it took
SendOutcomes(s) ==
    IF Ofd(fwd[s]) \notin fdopen THEN {-1} ELSE -1..Len(fwd[s].buf)

\* FwdSend going on after a short write
FwdSendIgnoresShort(s, wr) ==
    /\ FwdAt(s, "send")
    /\ wr \in SendOutcomes(s)
    /\ LET f == fwd[s]
           d == f.i + 1
           sent == IF wr > 0 THEN SubSeq(f.buf, 1, wr) ELSE <<>>
       IN /\ io' = [io EXCEPT ![s].wr[d] = @ \o sent]
          /\ fwd' = [fwd EXCEPT ![s] = [Advance(f) EXCEPT !.buf = <<>>, !.delay = 0]]
          /\ skm' = skm
    /\ UNCHANGED <<app, sockems, fdopen, nclose, conn, ret, thr, last, proc, sockem_lock>>

\* lines 196-200, and the caller's lines 292-295
FwdSend(s, wr) ==
    /\ FwdAt(s, "send")
    /\ wr \in SendOutcomes(s)
    /\ LET f == fwd[s]
           d == f.i + 1
           sent == IF wr > 0 THEN SubSeq(f.buf, 1, wr) ELSE <<>>
       IN /\ io' = [io EXCEPT ![s].wr[d] = @ \o sent]
          /\ IF wr < Len(f.buf)
               THEN /\ fwd' = [fwd EXCEPT ![s] = [Break(f) EXCEPT !.buf = <<>>, !.delay = 0]]
                    /\ skm' = [skm EXCEPT ![s].run = "TERM"]
               ELSE /\ fwd' = [fwd EXCEPT ![s] = [Advance(f) EXCEPT !.buf = <<>>, !.delay = 0]]
                    /\ skm' = skm
    /\ UNCHANGED <<app, sockems, fdopen, nclose, conn, ret, thr, last, proc, sockem_lock>>

\* FwdDone closing the application's socket in place of the accepted one
FwdDoneClosesApp(s) ==
    /\ FwdAt(s, "done")
    /\ IF fwd[s].cs # NoFd THEN Close0(skm[s].as) ELSE UNCHANGED <<fdopen, nclose>>
    /\ fwd' = [fwd EXCEPT ![s].pc = "ca_ls"]
    /\ UNCHANGED <<skm, app, sockems, conn, io, ret, thr, last, proc, sockem_lock>>

\* lines 302-304
FwdDone(s) ==
    /\ FwdAt(s, "done")
    /\ IF fwd[s].cs # NoFd THEN Close0(fwd[s].cs) ELSE UNCHANGED <<fdopen, nclose>>
    /\ fwd' = [fwd EXCEPT ![s].pc = "ca_ls"]
    /\ UNCHANGED <<skm, app, sockems, conn, io, ret, thr, last, proc, sockem_lock>>

\* sockem_close_all called at line 305: line 212
FwdCaLs(s) ==
    /\ FwdAt(s, "ca_ls")
    /\ fwd' = IF skm[s].ls # NoFd
                THEN [fwd EXCEPT ![s].pc = "ca_ls_close", ![s].tmp = skm[s].ls]
                ELSE [fwd EXCEPT ![s].pc = "ca_ps"]
    /\ UNCHANGED <<skm, app, sockems, fdopen, nclose, conn, io, ret, thr, last, proc, sockem_lock>>

\* lines 213-214
FwdCaLsClose(s) ==
    /\ FwdAt(s, "ca_ls_close")
    /\ Close0(fwd[s].tmp)
    /\ skm' = [skm EXCEPT ![s].ls = NoFd]
    /\ fwd' = [fwd EXCEPT ![s].pc = "ca_ps", ![s].tmp = NoFd]
    /\ UNCHANGED <<app, sockems, conn, io, ret, thr, last, proc, sockem_lock>>

\* line 217
FwdCaPs(s) ==
    /\ FwdAt(s, "ca_ps")
    /\ fwd' = IF skm[s].ps # NoFd
                THEN [fwd EXCEPT ![s].pc = "ca_ps_close", ![s].tmp = skm[s].ps]
                ELSE [fwd EXCEPT ![s].pc = "ca_run"]
    /\ UNCHANGED <<skm, app, sockems, fdopen, nclose, conn, io, ret, thr, last, proc, sockem_lock>>

\* lines 218-219
FwdCaPsClose(s) ==
    /\ FwdAt(s, "ca_ps_close")
    /\ Close0(fwd[s].tmp)
    /\ skm' = [skm EXCEPT ![s].ps = NoFd]
    /\ fwd' = [fwd EXCEPT ![s].pc = "ca_run", ![s].tmp = NoFd]
    /\ UNCHANGED <<app, sockems, conn, io, ret, thr, last, proc, sockem_lock>>

\* line 222
FwdCaRun(s) ==
    /\ FwdAt(s, "ca_run")
    /\ skm' = [skm EXCEPT ![s].run = "TERM"]
    /\ fwd' = [fwd EXCEPT ![s].pc = "unlock"]
    /\ UNCHANGED <<app, sockems, fdopen, nclose, conn, io, ret, thr, last, proc, sockem_lock>>

\* lines 307-311: unlock, free the buffer, the thread ends
FwdExit(s) ==
    /\ FwdAt(s, "unlock")
    /\ \E l \in UnlockOutcomes(skm[s].lock, "fwd") :
          skm' = [skm EXCEPT ![s].lock = l]
    /\ fwd' = [fwd EXCEPT ![s].pc = "exited"]
    /\ UNCHANGED <<app, sockems, fdopen, nclose, conn, io, ret, thr, last, proc, sockem_lock>>

(***************************************************************************)
(* The system.                                                             *)
(***************************************************************************)
AppConnectNext ==
    \/ \E s \in Sess, stage \in SetupStages : AppConnectFail(s, stage)
    \/ \E s \in Sess, fd \in AppFds, in \in ConnectInputs : AppConnectOpen(s, fd, in)
    \/ \E ok \in BOOLEAN : AppConnectCreate(ok)
    \/ \E outcome \in {"ok", "inprogress", "fail"} : AppConnectRedirect(outcome)
    \/ AppConnectLink
    \/ AppConnectInsert

AppCloseNext ==
    \/ AppCloseLock
    \/ AppCloseRun
    \/ AppCaLs
    \/ AppCaLsClose
    \/ AppCaPs
    \/ AppCaPsClose
    \/ AppCaRun
    \/ AppCloseUnlink
    \/ AppCloseJoin
    \/ AppCloseFree

AppCallNext ==
    \/ \E s \in Sess, in \in SetInputs : AppSetCall(s, in)
    \/ AppSetPair
    \/ AppSetReturn
    \/ \E fd \in AppFds : AppFind(fd)
    \/ \E s \in Sess : AppCloseCall(s)

\* the steps a forwarder thread takes by itself
FwdNext ==
    \/ \E s \in Sess : FwdStart(s)
    \/ \E s \in Sess : FwdAccept(s)
    \/ \E s \in Sess, ndebug \in BOOLEAN : FwdAcceptFailed(s, ndebug)
    \/ \E s \in Sess : FwdSetup(s)
    \/ \E s \in Sess : FwdLoopEnter(s)
    \/ \E s \in Sess : FwdLoopEnd(s)
    \/ \E s \in Sess, rv \in [1..2 -> PollEvents] : FwdPoll(s, rv)
    \/ \E s \in Sess : FwdHup(s)
    \/ \E s \in Sess, out \in {"eagain", "err", "eof"} : FwdRecvNone(s, out)
    \/ \E s \in Sess : \E n \in 1..io[s].ndata : FwdRecv(s, n)
    \/ \E s \in Sess : FwdSleep(s)
    \/ \E s \in Sess : \E wr \in -1..io[s].ndata : FwdSend(s, wr)
    \/ \E s \in Sess : FwdDone(s)
    \/ \E s \in Sess : FwdCaLs(s)
    \/ \E s \in Sess : FwdCaLsClose(s)
    \/ \E s \in Sess : FwdCaPs(s)
    \/ \E s \in Sess : FwdCaPsClose(s)
    \/ \E s \in Sess : FwdCaRun(s)
    \/ \E s \in Sess : FwdExit(s)

\* failures of the system calls of the forwarder, and the undefined join
Faults ==
    \/ \E s \in Sess : FwdAcceptFail(s)
    \/ \E s \in Sess : FwdPollFail(s)
    \/ \E crash \in BOOLEAN : AppCloseJoinNoThread(crash)

Next ==
    \/ AppConnectNext
    \/ AppCloseNext
    \/ AppCallNext
    \/ FwdNext
    \/ Faults

Spec == Init /\ [][Next]_vars

(***************************************************************************)
(* The session list: several sessions side by side on a quiet network (no  *)
(* data arrives, a poll times out or reports the application's hangup, no  *)
(* system call fails except a redirect that is still in progress), opened, *)
(* looked up and closed by the calling thread.                             *)
(***************************************************************************)
InitReg == InitWith(RegSessions, 0, 0)

QuietPolls == {<<"none", "none">>, <<"hup", "none">>}

NextReg ==
    \/ \E s \in Sess, fd \in AppFds : AppConnectOpen(s, fd, Typed(<<>>))
    \/ AppConnectCreate(TRUE)
    \/ \E outcome \in {"ok", "inprogress"} : AppConnectRedirect(outcome)
    \/ AppConnectLink
    \/ AppConnectInsert
    \/ AppCloseNext
    \/ \E fd \in AppFds : AppFind(fd)
    \/ \E s \in Sess : AppCloseCall(s)
    \/ \E s \in Sess : FwdStart(s)
    \/ \E s \in Sess : FwdAccept(s)
    \/ \E s \in Sess : FwdSetup(s)
    \/ \E s \in Sess : FwdLoopEnter(s)
    \/ \E s \in Sess : FwdLoopEnd(s)
    \/ \E s \in Sess, rv \in QuietPolls : FwdPoll(s, rv)
    \/ \E s \in Sess : FwdHup(s)
    \/ \E s \in Sess : FwdDone(s)
    \/ \E s \in Sess : FwdCaLs(s)
    \/ \E s \in Sess : FwdCaLsClose(s)
    \/ \E s \in Sess : FwdCaPs(s)
    \/ \E s \in Sess : FwdCaPsClose(s)
    \/ \E s \in Sess : FwdCaRun(s)
    \/ \E s \in Sess : FwdExit(s)

SpecReg == InitReg /\ [][NextReg]_vars

(***************************************************************************)
(* The preload adapter (LIBSOCKEM_PRELOAD): the application calls          *)
(* connect(2) and close(2), which sockem overloads; the config comes from  *)
(* the environment variable SOCKEM_CONF.                                   *)
(***************************************************************************)
\* SOCKEM_CONF unset (getenv returns NULL), empty, or "delay=50"
AdapterInputs == {NoInput, Bulk(<<>>), Bulk(<<T_delay50>>)}

\* connect(), lines 577-582: sockem_connect(sockfd, addr, addrlen,
\* sockem_conf_str, 0, NULL); it goes on as sockem_connect does
AdapterConnect(s, fd, in) ==
    /\ in \in AdapterInputs
    /\ fd \in fdopen
    /\ AppConnectOpen(s, fd, in)

\* close(), lines 595-601: sockem_lock is taken, and sockem_close called on
\* the session of fd, if there is one, with sockem_lock held
AdapterCloseCall(fd) ==
    /\ AppIdle
    /\ fd \in AppFds \cap fdopen
    /\ sockem_lock = "free"
    /\ sockem_lock' = "app"
    /\ LET s == sockem_find(fd)
       IN IF s # 0
            THEN /\ app' = [app EXCEPT !.pc = "close_lock", !.s = s,
                                       !.from = "adapter", !.fd = fd]
                 /\ ret' = [ret EXCEPT ![s].close = "busy"]
            ELSE /\ app' = [app EXCEPT !.pc = "adapter_unlock", !.fd = fd]
                 /\ ret' = ret
    /\ last' = NoCall
    /\ UNCHANGED <<skm, fwd, sockems, fdopen, nclose, conn, io, thr, proc>>

\* close(), lines 602-604: sockem_lock is released and the application's
\* descriptor closed by the close() of libc
AdapterCloseReturn ==
    /\ AppAt("adapter_unlock")
    /\ sockem_lock' = "free"
    /\ Close0(app.fd)
    /\ app' = NewApp
    /\ UNCHANGED <<skm, fwd, sockems, conn, io, ret, thr, last, proc>>

\* intercepted connect and close calls on several sockets, on a quiet network
NextPreload ==
    \/ \E s \in Sess, fd \in AppFds, in \in AdapterInputs : AdapterConnect(s, fd, in)
    \/ AppConnectCreate(TRUE)
    \/ \E outcome \in {"ok", "inprogress"} : AppConnectRedirect(outcome)
    \/ AppConnectLink
    \/ AppConnectInsert
    \/ \E fd \in AppFds : AdapterCloseCall(fd)
    \/ AppCloseNext
    \/ AdapterCloseReturn
    \/ \E s \in Sess : FwdStart(s)
    \/ \E s \in Sess : FwdAccept(s)
    \/ \E s \in Sess : FwdSetup(s)
    \/ \E s \in Sess : FwdLoopEnter(s)
    \/ \E s \in Sess : FwdLoopEnd(s)
    \/ \E s \in Sess, rv \in QuietPolls : FwdPoll(s, rv)
    \/ \E s \in Sess : FwdHup(s)
    \/ \E s \in Sess : FwdDone(s)
    \/ \E s \in Sess : FwdCaLs(s)
    \/ \E s \in Sess : FwdCaLsClose(s)
    \/ \E s \in Sess : FwdCaPs(s)
    \/ \E s \in Sess : FwdCaPsClose(s)
    \/ \E s \in Sess : FwdCaRun(s)
    \/ \E s \in Sess : FwdExit(s)

SpecPreload == InitReg /\ [][NextPreload]_vars

\* the steps of a call in progress on the calling thread
AppStep ==
    \/ \E ok \in BOOLEAN : AppConnectCreate(ok)
    \/ \E outcome \in {"ok", "inprogress", "fail"} : AppConnectRedirect(outcome)
    \/ AppConnectLink
    \/ AppConnectInsert
    \/ AppCloseNext
    \/ AppSetPair
    \/ AppSetReturn

\* Both threads of the one session are scheduled: a thread that can take a
\* step of its code takes it (a poll timeout and a delay sleep elapse, a
\* pending connection is accepted, a free mutex is acquired).  No system
\* call is bound to fail and the application is not bound to make a call.
FairSpec == Spec /\ WF_vars(FwdNext) /\ WF_vars(AppStep)

(***************************************************************************)
(* Properties.                                                             *)
(***************************************************************************)
IsPrefix(a, b) == Len(a) <= Len(b) /\ SubSeq(b, 1, Len(a)) = a

\* sockem_connect returned the handle of session s
Returned(s) == ret[s].connect = "ok"

\* sockem_close on the returned handle of s is past thrd_join (line 458)
PastJoin(s) ==
    \/ ret[s].close = "done"
    \/ ret[s].close = "busy" /\ app.s = s /\ app.pc = "close_free"

\* C1: for a session returned by sockem_connect, sockem_close is past its
\* thrd_join (so may destroy the lock, free the session and return) only
\* when the forwarder thread has exited and the listener, peer and accepted
\* descriptors are closed; the lock is destroyed and the memory freed only
\* then.
C1_CloseWaitsForForwarder ==
    \A s \in Sess :
        Returned(s) /\ (PastJoin(s) \/ skm[s].mem = "freed" \/ skm[s].lock = "destroyed")
            => /\ fwd[s].pc = "exited"
               /\ InternalFds(s) \cap fdopen = {}

\* C1 witness: a close that took the lock while the forwarder was in its
\* delay sleep has returned, after the chunk in flight was written
C1_Witness ==
    /\ Returned(1)
    /\ ret[1].close = "done"
    /\ ret[1].closeAt = "sleep"
    /\ io[1].wr[1] # <<>>

\* C2: the application descriptor is never closed by sockem: whatever
\* sockem_connect, sockem_set, sockem_close and the forwarder did, the
\* application's sockets are open and no close() was made on them.
C2_AppDescriptorNeverClosed ==
    \A f \in AppFds : f \in fdopen /\ nclose[f] = 0

\* C2 witness: a session was closed, each internal descriptor closed once
C2_Witness ==
    /\ ret[1].close = "done"
    /\ skm[1].as \in fdopen
    /\ \A f \in InternalFds(1) : nclose[f] = 1

\* C4: in each direction, what the forwarder has written to the opposite
\* descriptor is a prefix of what it has read from the source descriptor.
C4_WrittenIsPrefixOfRead ==
    \A s \in Sess : \A d \in 1..2 :
        IsPrefix(io[s].wr[d], SubSeq(Source(d - 1, io[s].ndata), 1, io[s].rd[d]))

\* C4 witness: with a delay configured, both directions relayed every byte
\* offered
C4_Witness ==
    /\ skm[1].use.delay = 50
    /\ io[1].wr[1] = Source(0, MaxData)
    /\ io[1].wr[2] = Source(1, MaxData)
    /\ MaxData >= 2

\* the documented fatal condition: an accept() failure on the internal
\* listener that no concurrent close explains (assert at line 259)
Fatal(s) == proc = "aborted" \/ fwd[s].pc = "relock"

\* C3: for a session returned by sockem_connect, a call of sockem_close
\* eventually returns, wherever the forwarder is when it is made, unless
\* the process stops on the fatal accept failure.
C3_CloseReturns ==
    (Returned(1) /\ ret[1].close = "busy") ~> (ret[1].close = "done" \/ Fatal(1))

\* C3 witness: a close made while the forwarder was blocked in poll returned
C3_Witness ==
    /\ Returned(1)
    /\ ret[1].close = "done"
    /\ ret[1].closeAt = "poll"
    /\ thr[1].joined = 1

\* the sessions on the list, as a set
Listed == {sockems[i] : i \in 1..Len(sockems)}

\* C5: a sockem_find(fd) call returns the live session (returned by
\* sockem_connect, sockem_close not called) whose application descriptor is
\* fd, and NULL when there is none, so NULL once that session was closed; a
\* session is on the list only after its redirect succeeded and while its
\* memory is allocated, and at most once.
C5_FindAndRegistry ==
    /\ last.op = "find" =>
          /\ \A s \in Sess : Live(s) /\ skm[s].as = last.fd => last.r = s
          /\ (\A s \in Sess : ~(Live(s) /\ skm[s].as = last.fd)) => last.r = 0
    /\ \A s \in Sess : Live(s) => sockem_find(skm[s].as) = s
    /\ \A s \in Listed :
          /\ skm[s].mem = "alloc"
          /\ skm[s].linked = 1
          /\ conn[s] \in {"pending", "accepted"}
    /\ \A s \in Sess : ret[s].close = "done" \/ ret[s].connect = "null" => s \notin Listed
    /\ Cardinality(Listed) = Len(sockems)

\* C5 witness: with two sessions listed, the one that is not at the head was
\* closed and freed, and a find on its descriptor returned NULL while the
\* other session is still found
C5_Witness ==
    /\ last.op = "find"
    /\ last.r = 0
    /\ ret[1].close = "done"
    /\ last.fd = skm[1].as
    /\ skm[1].mem = "freed"
    /\ Live(2)
    /\ sockem_find(skm[2].as) = 2

\* C6: a sockem_set call that returned an error left the session's pending
\* config as it was before the call (so the forwarder cannot snapshot a part
\* of the failed update).
C6_FailedSetLeavesConfig ==
    last.op = "set" /\ last.r = -1 => skm[last.s].conf = last.before

RecognizedKeys ==
    {K_rx_thruput, K_rx_throughput, K_tx_thruput, K_tx_throughput, K_delay,
     K_jitter, K_rx_bufsz, K_debug, K_true}

WellFormed(toks) ==
    \A i \in 1..Len(toks) : toks[i].eq /\ toks[i].key \in RecognizedKeys

\* C7: a sockem_set call given one string of comma-separated key=value
\* tokens with recognized keys succeeded and left the pending config that
\* the typed pairs, in the same order, give; given a string with a malformed
\* or unknown token it failed and left delay at its prior value.
C7_BulkEqualsTyped ==
    last.op = "set" /\ last.in.form = "string" =>
        IF WellFormed(last.in.toks)
          THEN /\ last.r = 0
               /\ skm[last.s].conf = sockem_vset(last.before, TypedArgs(last.in.toks)).conf
          ELSE /\ last.r = -1
               /\ skm[last.s].conf.delay = last.before.delay

\* C8: when sockem_connect has returned failure, every internal descriptor
\* it opened (listener, peer, accepted connection) is closed.
C8_FailedConnectClosesAll ==
    \A s \in Sess : ret[s].connect = "null" => InternalFds(s) \cap fdopen = {}

\* the redirect of the application descriptor (line 419) failed, after the
\* forwarder thread was created, and sockem_connect has not returned yet
RedirectFailed(s) ==
    /\ app.s = s
    /\ app.from = "connect"
    /\ skm[s].thrd = "created"
    /\ app.pc \notin {"conn_redirect", "conn_link", "conn_insert"}

\* C9: if the redirect fails after the forwarder thread was created,
\* sockem_connect eventually returns failure, the thread joined and the
\* session torn down (unless the process stops on the fatal accept failure).
C9_RedirectFailureReturns ==
    RedirectFailed(1) ~>
        \/ ret[1].connect = "null" /\ thr[1].joined = 1 /\ fwd[1].pc = "exited"
        \/ Fatal(1)

\* C10: the forwarder thread of a session is created at most once, joined at
\* most once and only if it was created, joined once the session is torn
\* down, and no join is made on a thread that was never created.
C10_ThreadCreatedOnceJoinedOnce ==
    \A s \in Sess :
        /\ thr[s].created <= 1
        /\ thr[s].joined <= thr[s].created
        /\ thr[s].badjoin = 0
        /\ skm[s].mem = "freed" => thr[s].joined = thr[s].created

\* sockem_close was called on session s: by the application, or by
\* sockem_connect on one of its failure paths
CloseCalled(s) ==
    \/ ret[s].close # "none"
    \/ ret[s].connect = "null"
    \/ /\ app.s = s
       /\ app.from = "connect"
       /\ app.pc \notin {"conn_create", "conn_redirect", "conn_link", "conn_insert"}

ExitPcs == {"done", "ca_ls", "ca_ls_close", "ca_ps", "ca_ps_close", "ca_run", "unlock"}

\* the forwarder of s, relaying, has seen a disconnect or a failure: it wrote
\* SOCKEM_TERM (hangup or error event, end of stream, read error, short
\* write) or left the loop by the break of a failed poll
Disconnected(s) ==
    /\ fwd[s].cs # NoFd
    /\ skm[s].run = "TERM" \/ fwd[s].pc \in ExitPcs

\* the forwarder of s has ended: state Terminated, the accepted connection,
\* the listener and the peer socket closed
Ended(s) ==
    /\ fwd[s].pc = "exited"
    /\ skm[s].run = "TERM"
    /\ InternalFds(s) \cap fdopen = {}

\* C11: with no call of sockem_close, once the running forwarder has seen a
\* disconnect or failure (hangup/error event, end of stream, read error,
\* short write, failed poll) it eventually leaves the loop, sets Terminated
\* and closes the accepted, listener and peer descriptors; a would-block
\* read leaves the run state as it is and the relay goes on.
C11_DisconnectEndsSession ==
    /\ (Disconnected(1) /\ ~CloseCalled(1)) ~> (Ended(1) \/ CloseCalled(1))
    /\ [][\A s \in Sess :
             FwdRecvNone(s, "eagain") =>
                 /\ skm'[s].run = skm[s].run
                 /\ fwd'[s].pc \in {"events", "loop_end"}]_vars

\* C11 witness: a session that relayed data ended by itself, sockem_close
\* never called
C11_Witness ==
    /\ Returned(1)
    /\ ~CloseCalled(1)
    /\ Ended(1)
    /\ io[1].wr[1] # <<>>
    /\ \A f \in InternalFds(1) : nclose[f] = 1

\* the positions of the forwarder inside an iteration of its relay loop
LoopPcs == {"poll", "events", "sleep", "send", "loop_end"}

\* C12: SOCKEM_TERM is absorbing; the run state becomes SOCKEM_RUN only by
\* the forwarder's own step at its start, from SOCKEM_START; an iteration of
\* the relay loop is entered only in state SOCKEM_RUN; so a forwarder that
\* found termination already requested at its start never is in SOCKEM_RUN
\* and never is inside an iteration (no poll, read or write).
C12_TermAbsorbing ==
    /\ [](\A s \in Sess :
             thr[s].ran = 0 => skm[s].run # "RUN" /\ fwd[s].pc \notin LoopPcs)
    /\ [][\A s \in Sess :
             /\ skm[s].run = "TERM" => skm'[s].run = "TERM"
             /\ skm'[s].run = "RUN" /\ skm[s].run # "RUN" =>
                    skm[s].run = "START" /\ fwd[s].pc = "start" /\ fwd'[s].pc = "accept"
             /\ fwd'[s].pc = "poll" /\ fwd[s].pc # "poll" => skm'[s].run = "RUN"
             /\ thr'[s].ran <= 1]_vars

\* C12 witness: sockem_close on a returned handle asked for termination
\* before the thread had started; the thread accepted the connection, never
\* relayed and was joined
C12_Witness ==
    /\ Returned(1)
    /\ ret[1].close = "done"
    /\ thr[1].created = 1
    /\ thr[1].ran = 0
    /\ conn[1] = "accepted"
    /\ fwd[1].pc = "exited"
    /\ io[1].rd = <<0, 0>>

\* the positions inside sockem_close_all
CaPcs == {"ca_ls", "ca_ls_close", "ca_ps", "ca_ps_close", "ca_run"}

\* C13: no internal descriptor is closed more than once, by sockem_close and
\* the forwarder together; sockem_close is inside sockem_close_all only if
\* it found the run state neither SOCKEM_START nor SOCKEM_RUN; and every
\* close made by the closer or by the forwarder's cleanup is made on a
\* descriptor that is still open.
C13_NoDoubleClose ==
    /\ \A s \in Sess : \A f \in InternalFds(s) : nclose[f] <= 1
    /\ app.pc \in CaPcs => skm[app.s].run \in {"INIT", "TERM"}
    /\ app.pc \in {"ca_ls_close", "ca_ps_close"} => app.tmp \in fdopen
    /\ \A s \in Sess :
          /\ fwd[s].pc \in {"ca_ls_close", "ca_ps_close"} => fwd[s].tmp \in fdopen
          /\ fwd[s].pc = "done" /\ fwd[s].cs # NoFd => fwd[s].cs \in fdopen

\* C13 witness: the forwarder had set SOCKEM_TERM on a hangup and waits for
\* the lock; sockem_close, holding it, found SOCKEM_TERM and has closed the
\* listener itself
C13_Witness ==
    /\ app.pc = "ca_ps"
    /\ app.from = "api"
    /\ nclose[LsFd(1)] = 1
    /\ skm[1].ls = NoFd
    /\ fwd[1].pc = "loop_end"

\* C14: the forwarder never polls, reads from or writes to an internal
\* descriptor (accepted connection or peer socket) that has been closed:
\* when it is about to poll both descriptors are open, when it is about to
\* read pfd[i].fd that descriptor is open, and when it holds a chunk to write
\* the opposite descriptor is open.
C14_NoUseAfterClose ==
    \A s \in Sess :
        /\ fwd[s].pc = "poll" => {fwd[s].cs, fwd[s].pfd1} \subseteq fdopen
        /\ fwd[s].pc = "events" /\ fwd[s].rev[fwd[s].i + 1] = "in" =>
               Ifd(fwd[s]) \in fdopen
        /\ fwd[s].pc \in {"sleep", "send"} => Ofd(fwd[s]) \in fdopen

\* the positions where the forwarder is in, or about to make, a system call
\* that can block or take time: accept, poll, recv, usleep, send
SyscallPcs == {"accept", "poll", "events", "sleep", "send"}

\* C15: the forwarder does not hold the session lock while it is in accept,
\* poll, recv, the delay sleep or send, so a sockem_set or sockem_close call
\* can take the lock during a poll timeout or a delay sleep.
C15_NoLockAcrossSyscall ==
    \A s \in Sess : fwd[s].pc \in SyscallPcs => skm[s].lock # "fwd"

\* C15 witness: a sockem_set call holds the lock and has applied its first
\* pair while the forwarder is in its delay sleep
C15_Witness ==
    /\ fwd[1].pc = "sleep"
    /\ skm[1].lock = "app"
    /\ app.pc = "set_pair"
    /\ app.k = 2

\* C16: on every way out of the forwarder thread (loop condition false,
\* failed poll, failed accept with SOCKEM_TERM), the exit cleanup and the
\* final unlock are made with the session lock held by the forwarder.
C16_CleanupUnderLock ==
    \A s \in Sess : fwd[s].pc \in ExitPcs => skm[s].lock = "fwd"

\* C17: whenever the forwarder polls, the timeout it passes is the one its
\* active config gives: 1000 ms when delay + jitter = 0, else the smaller of
\* delay and jitter; so from the iteration after a successful set of delay
\* or jitter the timeout follows the new values.
C17_PollTimeoutFollowsConfig ==
    \A s \in Sess :
        fwd[s].pc = "poll" => fwd[s].waittime = sockem_calc_waittime(skm[s].use)

\* a sockem_set call on session s is between its lock and its unlock
SetInProgress(s) == app.pc = "set_pair" /\ app.s = s

\* C18: the forwarder's active config changes only by a copy of the whole
\* pending config, made at the thread's start or between two iterations
\* (never while a chunk is being relayed) and at an instant when no
\* sockem_set call is in progress, so it never holds a part of the pairs of
\* one call; and each iteration starts with the pending config of that
\* instant, so a returned set is in use from the next iteration on.
C18_SnapshotIsAtomic ==
    [][\A s \in Sess :
          /\ skm'[s].use # skm[s].use =>
                 /\ fwd[s].pc \in {"start", "loop_end"}
                 /\ ~SetInProgress(s)
                 /\ skm'[s].use = skm[s].conf
          /\ fwd[s].pc = "loop_end" /\ fwd'[s].pc # "loop_end" =>
                 skm'[s].use = skm[s].conf]_vars

\* C18 witness: after a successful two-pair sockem_set, the forwarder polls
\* with both new values in its active config
C18_Witness ==
    /\ last.op = "set"
    /\ last.r = 0
    /\ last.in = Typed(<<T_delay50, T_jitter10>>)
    /\ last.before = DefaultConf
    /\ fwd[1].pc = "poll"
    /\ skm[1].use.delay = 50
    /\ skm[1].use.jitter = 10

\* C19: after each successful non-empty read the forwarder computes the
\* delay as delay + jitter / 2 (integer division) of its active config;
\* when it is not 0 it sleeps that long after the read and before the write;
\* it then writes the chunk read to the opposite descriptor: either all of
\* its bytes are written, or fewer and the session is terminated.
C19_DelayThenFullWrite ==
    /\ [](\A s \in Sess :
             fwd[s].pc \in {"sleep", "send"} =>
                 /\ fwd[s].buf # <<>>
                 /\ fwd[s].delay = skm[s].use.delay + CDiv(skm[s].use.jitter, 2)
                 /\ fwd[s].pc = "sleep" => fwd[s].delay # 0)
    /\ [][\A s \in Sess :
             /\ fwd'[s].pc = "sleep" /\ fwd[s].pc # "sleep" =>
                    /\ fwd[s].pc = "events"
                    /\ Len(fwd'[s].buf) = io'[s].rd[fwd[s].i + 1] - io[s].rd[fwd[s].i + 1]
             /\ fwd'[s].pc = "send" /\ fwd[s].pc # "send" =>
                    \/ fwd[s].pc = "sleep" /\ fwd'[s].buf = fwd[s].buf
                    \/ /\ fwd[s].pc = "events"
                       /\ fwd'[s].delay = 0
                       /\ Len(fwd'[s].buf) = io'[s].rd[fwd[s].i + 1] - io[s].rd[fwd[s].i + 1]
             /\ fwd[s].pc = "send" /\ fwd'[s].pc # "send" =>
                    \/ io'[s].wr[fwd[s].i + 1] = io[s].wr[fwd[s].i + 1] \o fwd[s].buf
                    \/ /\ Len(io'[s].wr[fwd[s].i + 1])
                              < Len(io[s].wr[fwd[s].i + 1]) + Len(fwd[s].buf)
                       /\ skm'[s].run = "TERM"
                       /\ fwd'[s].pc = "loop_end"]_vars

\* C19 witness: with delay 50 and jitter 10 in the active config, a chunk of
\* two bytes was read, the forwarder slept 55 ms and is about to write it
C19_Witness ==
    /\ fwd[1].pc = "send"
    /\ skm[1].use.delay = 50
    /\ skm[1].use.jitter = 10
    /\ fwd[1].delay = 55
    /\ Len(fwd[1].buf) = 2

\* C20: with the preload adapter, sockem_lock is held only while the list is
\* changed or searched: the thread that holds it holds no session lock and
\* is not blocked in the join of a forwarder thread.
C20_RegistryLockShort ==
    sockem_lock = "app" =>
        /\ \A s \in Sess : skm[s].lock # "app"
        /\ app.pc # "close_join"

====
